---- MODULE Spec2Model ----
(***************************************************************************)
(* claude-audio-hooks: the configuration lifecycle (cli.ts, installer.ts,  *)
(* config-manager.ts), the event logger and sound resolver (utils.ts) and  *)
(* the hook handlers (working.ts, notification.ts, stop.ts,                *)
(* tts-summary.ts) with the animated terminal status manager.              *)
(*                                                                         *)
(* A JSON object is a function whose DOMAIN is the set of keys present in  *)
(* the object.  A file on disk is a record [kind, doc]: kind says whether  *)
(* the file is missing, empty, unparseable ("bad") or valid JSON, and doc  *)
(* is what its text holds.                                                 *)
(***************************************************************************)
EXTENDS Naturals, Integers, Sequences, FiniteSets, TLC

VARIABLES
  settingsFile,   \* ~/.claude/settings.json          (host settings)
  configFile,     \* ~/.claude/audio-hooks-config.json (AudioHooksConfig)
  claudeFile,     \* ~/.claude.json                   (integration document)
  distPath,       \* resolve(__dirname) of the installed cli.js
  cmd,            \* the last CLI command: name, outcome, exit status, the
                  \* documents it handed to saveSettings, what status printed
  settings0,      \* the host settings file before the first command
  installAdded,   \* hook keys written by install since the last uninstall
  installs,       \* successful installs since the last uninstall: 0, 1, 2+
  prompted,       \* whether the last command asked for an API key
  store,          \* the last direct call of an exported function, its result
  logs,           \* ~/.claude/logs/<eventType>.json per event type
  logged,         \* per event type, the payloads handed to logEvent so far
  machine,        \* os.platform(), WSL, and which sound files exist
  run,            \* the last hook-handler / sound-playback invocation
  chat,           \* ~/.claude/logs/chat.json and the order of the stop
                  \* handler's last steps
  procs,          \* hook processes inside logEvent: where each one is and
                  \* the array it holds in memory
  tts,            \* the last voice-summary invocation and its log file
  anim            \* the animated status manager: interval handle, live
                  \* timers, frame counter, terminal title

vars == << settingsFile, configFile, claudeFile, distPath, cmd,
           settings0, installAdded, installs, prompted, store, logs, logged, machine,
           run, chat, procs, tts, anim >>

cliVars   == << settingsFile, configFile, claudeFile, distPath, cmd,
                settings0, installAdded, installs, prompted >>
storeVars == << store >>
hookVars  == << logs, logged, machine, run >>
sideVars  == << chat, procs, tts, anim >>

----------------------------------------------------------------------------
(* Bounds                                                                  *)

NumApiKeys == 2      \* distinct valid API keys a user may type
NumTimes   == 1      \* distinct instants new Date() may return
MaxLog     == 3      \* number of direct logEvent calls explored
MaxRuns    == 1      \* number of handler invocations that reach logEvent
NumProcs   == 2      \* hook processes that may be inside logEvent at once
MaxTimers  == 3      \* setInterval calls explored
MaxFrames  == 4      \* animation frames explored per timer

ApiKeys == { [key |-> i] : i \in 1..NumApiKeys }
Times   == 1..NumTimes

----------------------------------------------------------------------------
(* JSON objects                                                            *)

EmptyDoc == [x \in {} |-> x]

Has(d, k) == k \in DOMAIN d

SetKey(d, k, v) == [x \in (DOMAIN d) \cup {k} |-> IF x = k THEN v ELSE d[x]]

DeleteKey(d, k) == [x \in (DOMAIN d) \ {k} |-> d[x]]

\* the part of d outside the keys ks
Except(d, ks) == [x \in (DOMAIN d) \ ks |-> d[x]]

\* the in-memory value undefined of the optional property elevenLabsApiKey
Undefined == [key |-> 0]

IsUndefined(doc, k) == k = "elevenLabsApiKey" /\ doc[k] = Undefined

(* JSON.stringify(doc, null, 2): the text of a document.  A property whose *)
(* value is undefined is not written.                                      *)
Stringify(doc) ==
  [kind |-> "json",
   doc  |-> [x \in {k \in DOMAIN doc : ~IsUndefined(doc, k)} |-> doc[x]]]

MissingFile == [kind |-> "missing", doc |-> EmptyDoc]
EmptyFile   == [kind |-> "empty",   doc |-> EmptyDoc]
BadFile(d)  == [kind |-> "bad",     doc |-> d]

existsSync(file) == file.kind # "missing"

\* JSON.parse(readFileSync(path)) succeeds
Parses(file) == file.kind = "json"

\* the value null returned by the loaders and the wizard
Null == [null |-> TRUE]

----------------------------------------------------------------------------
(* ConfigManager (config-manager.ts)                                       *)

Modes == {"standard", "tts"}

SoundSelections ==
  { [notification |-> "attention", completion |-> "complete"],
    [notification |-> "silent",    completion |-> "silent"] }

\* a loadConfig that falls back to a default configuration when the file
\* is there but cannot be parsed
LoadConfigOrDefault(file) ==
  IF ~existsSync(file) THEN Null
  ELSE IF Parses(file) THEN file.doc
  ELSE [mode |-> "standard",
        soundSelection |-> [notification |-> "attention",
                            completion |-> "complete"],
        installedAt |-> 1, version |-> "1.0.2"]

LoadConfig(file) ==
  IF ~existsSync(file) THEN Null
  ELSE IF Parses(file) THEN file.doc ELSE Null

\* a saveConfig that keeps the API key out of the file
SaveConfigWithoutKey(config) == Stringify(DeleteKey(config, "elevenLabsApiKey"))

SaveConfig(config) == Stringify(config)

\* writeFileSync(CONFIG_PATH, '') when the file exists
RemoveConfig(file) == IF existsSync(file) THEN EmptyFile ELSE file

LoadClaudeConfig(file) ==
  IF ~existsSync(file) THEN EmptyDoc
  ELSE IF Parses(file) THEN file.doc ELSE EmptyDoc

SaveClaudeConfig(config) == Stringify(config)

ElevenLabsServer(apiKey) ==
  [type |-> "stdio", command |-> "uvx", args |-> <<"elevenlabs-mcp">>,
   env |-> [ELEVENLABS_API_KEY |-> apiKey]]

\* a configureElevenLabsMcp that leaves an entry that is already there
ConfigureElevenLabsMcpIfAbsent(file, apiKey) ==
  LET claudeConfig == LoadClaudeConfig(file)
      servers == IF Has(claudeConfig, "mcpServers")
                 THEN claudeConfig.mcpServers ELSE EmptyDoc
  IN IF Has(servers, "elevenlabs") THEN file
     ELSE SaveClaudeConfig(
            SetKey(claudeConfig, "mcpServers",
                   SetKey(servers, "elevenlabs", ElevenLabsServer(apiKey))))

ConfigureElevenLabsMcp(file, apiKey) ==
  LET claudeConfig == LoadClaudeConfig(file)
      servers == IF Has(claudeConfig, "mcpServers")
                 THEN claudeConfig.mcpServers ELSE EmptyDoc
  IN SaveClaudeConfig(
       SetKey(claudeConfig, "mcpServers",
              SetKey(servers, "elevenlabs", ElevenLabsServer(apiKey))))

RemoveElevenLabsMcp(file) ==
  LET claudeConfig == LoadClaudeConfig(file)
  IN IF Has(claudeConfig, "mcpServers")
        /\ Has(claudeConfig.mcpServers, "elevenlabs")
     THEN SaveClaudeConfig(
            SetKey(claudeConfig, "mcpServers",
                   DeleteKey(claudeConfig.mcpServers, "elevenlabs")))
     ELSE file

CreateDefaultConfig(mode, apiKey, soundSelection, now) ==
  [mode |-> mode, elevenLabsApiKey |-> apiKey,
   soundSelection |-> soundSelection, installedAt |-> now,
   version |-> "1.0.2"]

\* config.elevenLabsApiKey, undefined when the property is not there
ApiKeyOf(config) ==
  IF Has(config, "elevenLabsApiKey") THEN config.elevenLabsApiKey
  ELSE Undefined

----------------------------------------------------------------------------
(* Host settings and the hook registrations (cli.ts)                       *)

HookTypes == {"PreToolUse", "Notification", "Stop"}

DistPaths == {"/opt/claude-audio-hooks/dist", "/srv/hooks/dist"}

Command(dir, script, args) == [dir |-> dir, script |-> script, args |-> args]

\* hook commands that do not depend on the mode
GetHookCommandsStandardOnly(mode) ==
  [PreToolUse   |-> Command(distPath, "working.js", ""),
   Notification |-> Command(distPath, "notification.js", "--notify"),
   Stop         |-> Command(distPath, "stop.js", "--chat")]

GetHookCommands(mode) ==
  IF mode = "tts"
  THEN [PreToolUse   |-> Command(distPath, "working.js", ""),
        Notification |-> Command(distPath, "tts-summary.js", "notification"),
        Stop         |-> Command(distPath, "tts-summary.js", "stop")]
  ELSE [PreToolUse   |-> Command(distPath, "working.js", ""),
        Notification |-> Command(distPath, "notification.js", "--notify"),
        Stop         |-> Command(distPath, "stop.js", "--chat")]

HookConfig(command) ==
  [matcher |-> "", hooks |-> << [type |-> "command", command |-> command] >>]

\* the entry install writes under SubagentStop when there is none
SubagentStopPlaceholder == << [matcher |-> "", hooks |-> << >>] >>

\* cli.ts loadSettings returns (it throws when the file is missing or bad)
LoadSettingsOk(file) == existsSync(file) /\ Parses(file)

SaveSettings(settings) == Stringify(settings)

\* a registration that pushes onto the list already there
RegisterHooksAppend(hooks, hookCommands) ==
  [x \in (DOMAIN hooks) \cup (DOMAIN hookCommands) |->
     IF x \in DOMAIN hookCommands
     THEN IF x \in DOMAIN hooks
          THEN Append(hooks[x], HookConfig(hookCommands[x]))
          ELSE << HookConfig(hookCommands[x]) >>
     ELSE hooks[x]]

\* settings.hooks[hookType] = [hookConfig] for each entry of hookCommands
RegisterHooks(hooks, hookCommands) ==
  [x \in (DOMAIN hooks) \cup (DOMAIN hookCommands) |->
     IF x \in DOMAIN hookCommands THEN << HookConfig(hookCommands[x]) >>
     ELSE hooks[x]]

\* an install that starts from a fresh hooks object
InstallSettingsFreshHooks(settings, mode) ==
  SetKey(settings, "hooks",
         SetKey(RegisterHooks(EmptyDoc, GetHookCommands(mode)),
                "SubagentStop", SubagentStopPlaceholder))

\* installHooks, from "Initialize hooks object" to before saveSettings
InstallSettings(settings, mode) ==
  LET hooks0 == IF Has(settings, "hooks") THEN settings.hooks ELSE EmptyDoc
      hooks1 == RegisterHooks(hooks0, GetHookCommands(mode))
      hooks2 == IF Has(hooks1, "SubagentStop") THEN hooks1
                ELSE SetKey(hooks1, "SubagentStop", SubagentStopPlaceholder)
  IN SetKey(settings, "hooks", hooks2)

\* uninstallHooks: the three deletes (settings.hooks exists)
UninstallSettings(settings) ==
  SetKey(settings, "hooks", Except(settings.hooks, HookTypes))

\* reinstallHooks, between loadSettings and saveSettings
ReinstallSettings(settings, mode) ==
  LET hooks0 == IF Has(settings, "hooks")
                THEN Except(settings.hooks, HookTypes) ELSE EmptyDoc
  IN SetKey(settings, "hooks", RegisterHooks(hooks0, GetHookCommands(mode)))

\* an install that saves after each registration
InstallWritesPerHook(settings, mode) ==
  LET hooks0 == IF Has(settings, "hooks") THEN settings.hooks ELSE EmptyDoc
      commands == GetHookCommands(mode)
      one(k) == [x \in {k} |-> commands[x]]
      h1 == RegisterHooks(hooks0, one("PreToolUse"))
      h2 == RegisterHooks(h1, one("Notification"))
  IN << SetKey(settings, "hooks", h1), SetKey(settings, "hooks", h2),
        InstallSettings(settings, mode) >>

\* the documents installHooks hands to saveSettings, in order
InstallWrites(settings, mode) == << InstallSettings(settings, mode) >>

\* the documents uninstallHooks hands to saveSettings, in order
UninstallWrites(settings) == << UninstallSettings(settings) >>

\* the documents reinstallHooks hands to saveSettings, in order
ReinstallWrites(settings, mode) == << ReinstallSettings(settings, mode) >>

----------------------------------------------------------------------------
(* Installer (installer.ts): the wizard's answers are the parameters       *)

\* a wizard that skips the final confirmation
RunGuidedInstallationUnconfirmed(file, reinstall, mode, apiKey, sel, confirmed, now, threw) ==
  IF LoadConfig(file) # Null /\ ~reinstall THEN Null
  ELSE IF threw THEN Null
  ELSE CreateDefaultConfig(mode, IF mode = "tts" THEN apiKey ELSE Undefined,
                           sel, now)

\* runGuidedInstallation: null on cancellation, else a complete config;
\* threw: one of the later prompts rejects and the catch block returns null
RunGuidedInstallation(file, reinstall, mode, apiKey, sel, confirmed, now, threw) ==
  IF LoadConfig(file) # Null /\ ~reinstall THEN Null
  ELSE IF threw THEN Null
  ELSE IF ~confirmed THEN Null
  ELSE CreateDefaultConfig(mode, IF mode = "tts" THEN apiKey ELSE Undefined,
                           sel, now)

NewMode(currentConfig) ==
  IF currentConfig.mode = "standard" THEN "tts" ELSE "standard"

\* a switchMode that asks for an API key on every switch to tts
SwitchModeAlwaysPrompts(currentConfig) == NewMode(currentConfig) = "tts"

\* switchMode asks for an API key: switching to tts and none is stored
SwitchModePrompts(currentConfig) ==
  NewMode(currentConfig) = "tts" /\ ApiKeyOf(currentConfig) = Undefined

\* Installer.switchMode: null, or the current config with the mode flipped
InstallerSwitchMode(file, confirm, typedKey) ==
  LET currentConfig == LoadConfig(file) IN
  IF currentConfig = Null THEN Null
  ELSE IF ~confirm THEN Null
  ELSE LET apiKey == IF SwitchModePrompts(currentConfig) THEN typedKey
                     ELSE ApiKeyOf(currentConfig)
       IN SetKey(SetKey(currentConfig, "mode", NewMode(currentConfig)),
                 "elevenLabsApiKey", apiKey)

\* the notifications entry is offered on Windows or WSL only
ReconfigureChoices(win) ==
  {"mode", "apikey", "cancel"} \cup (IF win THEN {"notifications"} ELSE {})

\* Installer.reconfigure
Reconfigure(file, choice, confirm, typedKey, enable) ==
  LET currentConfig == LoadConfig(file) IN
  IF currentConfig = Null THEN Null
  ELSE IF choice = "mode" THEN InstallerSwitchMode(file, confirm, typedKey)
  ELSE IF choice = "apikey"
       THEN IF currentConfig.mode # "tts" THEN Null
            ELSE SetKey(currentConfig, "elevenLabsApiKey", typedKey)
  ELSE IF choice = "notifications"
       THEN SetKey(currentConfig, "enableWindowsNotifications", enable)
  ELSE Null

\* reconfigure asks for an API key
ReconfigurePrompts(file, choice, confirm) ==
  LET currentConfig == LoadConfig(file) IN
  /\ currentConfig # Null
  /\ \/ choice = "mode" /\ confirm /\ SwitchModePrompts(currentConfig)
     \/ choice = "apikey" /\ currentConfig.mode = "tts"

----------------------------------------------------------------------------
(* Documents the commands start from                                       *)

UserEntry ==
  [matcher |-> "Bash",
   hooks |-> << [type |-> "command",
                 command |-> Command("/home/u/bin", "lint.sh", "")] >>]

UserEntry2 ==
  [matcher |-> "Edit",
   hooks |-> << [type |-> "command",
                 command |-> Command("/home/u/bin", "fmt.sh", "")],
                [type |-> "command",
                 command |-> Command("/home/u/bin", "lint.sh", "")] >>]

InitialSettingsDocs ==
  { EmptyDoc,
    [model |-> "opus"],
    [model |-> "opus", hooks |-> EmptyDoc],
    [model |-> "opus", hooks |-> [PostToolUse |-> << UserEntry >>]],
    [model |-> "opus",
     hooks |-> [PreToolUse |-> << UserEntry, UserEntry2 >>,
                Stop |-> << UserEntry >>,
                PostToolUse |-> << UserEntry >>]],
    [model |-> "opus",
     hooks |-> [SubagentStop |-> << UserEntry >>,
                Notification |-> << UserEntry2 >>,
                PostToolUse |-> << UserEntry >>]] }

InitialSettingsFiles ==
  { MissingFile, BadFile([model |-> "opus"]) }
    \cup { Stringify(d) : d \in InitialSettingsDocs }

OtherServer == [command |-> "npx", args |-> <<"github-mcp">>]

InitialClaudeDocs ==
  { EmptyDoc,
    [numStartups |-> 7, mcpServers |-> [github |-> OtherServer]],
    [mcpServers |-> [github |-> OtherServer,
                     elevenlabs |-> ElevenLabsServer([key |-> 1])]] }

InitialClaudeFiles ==
  { MissingFile,
    BadFile([numStartups |-> 7, mcpServers |-> [github |-> OtherServer]]) }
    \cup { Stringify(d) : d \in InitialClaudeDocs }

NoCmd == [name |-> "none", outcome |-> "none", exit |-> 0,
          writes |-> << >>, report |-> EmptyDoc]

NoStore == [op |-> "none", arg |-> Null, result |-> Null,
            before |-> MissingFile, afterSave |-> FALSE]

NoRun ==
  [handler |-> "none", stdin |-> [kind |-> "invalid", data |-> EmptyDoc],
   flags |-> [notify |-> FALSE, speak |-> FALSE, chat |-> FALSE],
   exit |-> 3, status |-> << >>, execs |-> << >>, err |-> << >>,
   settled |-> "none"]

\* the file at data.transcript_path when there is none
NoTranscript == [kind |-> "missing", lines |-> << >>]

\* no chat log yet, no stop handler has run
NoChat == [log |-> MissingFile, transcript |-> NoTranscript, trace |-> << >>]

\* hook processes that have not reached logEvent
Procs == 1..NumProcs

IdleProc == [pc |-> "idle", event |-> "none", mem |-> MissingFile]

NoProcs == [at |-> [p \in Procs |-> IdleProc], overlapped |-> FALSE]

\* no voice-summary handler has run, tts-summary.json does not exist
NoTtsRun ==
  [hookType |-> "none", stdin |-> [kind |-> "invalid", data |-> EmptyDoc],
   configured |-> FALSE, mcp |-> "none", requireDefined |-> TRUE,
   text |-> << >>, requested |-> FALSE, played |-> 0, fallbacks |-> 0,
   said |-> FALSE, printed |-> FALSE, exit |-> 3, err |-> << >>]

NoTts == [log |-> MissingFile, run |-> NoTtsRun]

\* the title of a terminal nothing has written to
NoTitle == [emoji |-> "", text |-> ""]

\* let animationInterval = null; let currentFrame = 0;
NoAnim == [interval |-> 0, live |-> {}, created |-> 0, frame |-> 0,
           title |-> NoTitle, last |-> "none", written |-> NoTitle]

InitSide == chat = NoChat /\ procs = NoProcs /\ tts = NoTts /\ anim = NoAnim

\* a Linux machine with no sound files, for the runs that play no sound
PlainMachine == [platform |-> "linux", wsl |-> FALSE, userExists |-> FALSE,
                 bundledExists |-> FALSE]

\* configurations left by an earlier installation
InitialConfigs ==
  { CreateDefaultConfig("standard", Undefined,
                        [notification |-> "attention", completion |-> "complete"], 1),
    CreateDefaultConfig("tts", [key |-> 1],
                        [notification |-> "attention", completion |-> "complete"], 1) }

InitCli ==
  /\ settingsFile \in InitialSettingsFiles
  /\ configFile \in {MissingFile, BadFile(EmptyDoc)}
                      \cup { Stringify(c) : c \in InitialConfigs }
  /\ claudeFile \in InitialClaudeFiles
  /\ distPath \in DistPaths
  /\ cmd = NoCmd
  /\ settings0 = settingsFile
  /\ installAdded = {}
  /\ installs = 0
  /\ prompted = FALSE

InitStore == store = NoStore

InitHooks ==
  /\ logs = [e \in {"working", "notifications", "stop"} |-> MissingFile]
  /\ logged = [e \in {"working", "notifications", "stop"} |-> << >>]
  /\ machine = PlainMachine
  /\ run = NoRun

Init == InitCli /\ InitStore /\ InitHooks /\ InitSide

----------------------------------------------------------------------------
(* The commands (cli.ts)                                                   *)

\* a command that ends without a saveSettings call
Done(name, outcome, exit) ==
  /\ cmd' = [name |-> name, outcome |-> outcome, exit |-> exit,
             writes |-> << >>, report |-> EmptyDoc]
  /\ UNCHANGED << distPath, settings0 >>

\* a command that called saveSettings with each of writes in turn: the file
\* holds the last of them
Saved(name, outcome, exit, writes) ==
  /\ settingsFile' = SaveSettings(writes[Len(writes)])
  /\ cmd' = [name |-> name, outcome |-> outcome, exit |-> exit,
             writes |-> writes, report |-> EmptyDoc]
  /\ UNCHANGED << distPath, settings0 >>

\* the answers to a question that is asked only when asked holds
AnswersFor(asked) == IF asked THEN BOOLEAN ELSE {FALSE}

\* the keys typed at the API key prompt, one placeholder when it is not shown
KeysFor(asked) == IF asked THEN ApiKeys ELSE {[key |-> 1]}

\* the instants that can end up in a configuration, one placeholder when
\* none is written
TimesFor(written) == IF written THEN Times ELSE {1}

\* the sound selections that can end up in a configuration, one
\* placeholder when the wizard returns none
SelectionsFor(completes) ==
  IF completes THEN SoundSelections
  ELSE {[notification |-> "attention", completion |-> "complete"]}

\* the wizard's answers end in cancellation
WizardCancels(file, reinstall, confirmed, threw) ==
  \/ LoadConfig(file) # Null /\ ~reinstall
  \/ ~confirmed
  \/ threw

\* installHooks
Install ==
  \E reinstall \in BOOLEAN, confirmed \in BOOLEAN, mode \in Modes :
  \E threw \in AnswersFor(confirmed) :
  \E apiKey \in KeysFor(mode = "tts"
                         /\ ~WizardCancels(configFile, reinstall, confirmed, threw)),
     sel \in SelectionsFor(~WizardCancels(configFile, reinstall, confirmed, threw)),
     now \in TimesFor(~WizardCancels(configFile, reinstall, confirmed, threw)) :
    LET config == RunGuidedInstallation(configFile, reinstall, mode, apiKey,
                                        sel, confirmed, now, threw)
    IN
    /\ prompted' = (mode = "tts" /\ (LoadConfig(configFile) = Null \/ reinstall))
    /\ IF config = Null
       THEN /\ Done("install", "cancelled", 0)
            /\ UNCHANGED << settingsFile, configFile, claudeFile, installAdded,
                            installs >>
       ELSE /\ configFile' = SaveConfig(config)
            /\ claudeFile' =
                 IF config.mode = "tts" /\ config.elevenLabsApiKey # Undefined
                 THEN ConfigureElevenLabsMcp(claudeFile, config.elevenLabsApiKey)
                 ELSE claudeFile
            /\ IF ~LoadSettingsOk(settingsFile)
               THEN /\ Done("install", "failed", 1)
                    /\ UNCHANGED << settingsFile, installAdded, installs >>
               ELSE /\ Saved("install", "ok", 0,
                          InstallWrites(settingsFile.doc, config.mode))
                    /\ installAdded' =
                         (IF installs = 0 THEN {} ELSE installAdded)
                         \cup HookTypes
                         \cup (IF Has(settingsFile.doc, "hooks")
                                  /\ Has(settingsFile.doc.hooks, "SubagentStop")
                               THEN {} ELSE {"SubagentStop"})
                    /\ installs' = IF installs = 0 THEN 1 ELSE 2
    /\ UNCHANGED << storeVars, hookVars, sideVars >>

\* uninstallHooks
Uninstall ==
  LET config == LoadConfig(configFile) IN
  /\ prompted' = FALSE
  /\ UNCHANGED installAdded
  /\ installs' = 0
  /\ IF config = Null
     THEN /\ Done("uninstall", "noconfig", 0)
          /\ UNCHANGED << settingsFile, configFile, claudeFile >>
     ELSE IF ~LoadSettingsOk(settingsFile)
     THEN /\ Done("uninstall", "failed", 1)
          /\ UNCHANGED << settingsFile, configFile, claudeFile >>
     ELSE IF ~Has(settingsFile.doc, "hooks")
     THEN /\ Done("uninstall", "nohooks", 0)
          /\ UNCHANGED << settingsFile, configFile, claudeFile >>
     ELSE /\ Saved("uninstall", "ok", 0, UninstallWrites(settingsFile.doc))
          /\ claudeFile' = IF config.mode = "tts"
                           THEN RemoveElevenLabsMcp(claudeFile) ELSE claudeFile
          /\ configFile' = RemoveConfig(configFile)
  /\ UNCHANGED << storeVars, hookVars, sideVars >>

\* configureHooks and switchMode after the Installer returned config:
\* saveConfig, the MCP update, reinstallHooks
ApplyConfig(name, config) ==
  IF config = Null
  THEN /\ Done(name, "cancelled", 0)
       /\ UNCHANGED << settingsFile, configFile, claudeFile >>
  ELSE /\ configFile' = SaveConfig(config)
       /\ claudeFile' =
            IF config.mode = "tts" /\ ApiKeyOf(config) # Undefined
            THEN ConfigureElevenLabsMcp(claudeFile, ApiKeyOf(config))
            ELSE IF config.mode = "standard"
            THEN RemoveElevenLabsMcp(claudeFile)
            ELSE claudeFile
       /\ IF ~LoadSettingsOk(settingsFile)
          THEN /\ Done(name, "failed", 1)
               /\ UNCHANGED settingsFile
          ELSE Saved(name, "ok", 0,
                     ReinstallWrites(settingsFile.doc, config.mode))

\* configureHooks
Configure ==
  \E choice \in ReconfigureChoices(TRUE) :
  \E confirm \in AnswersFor(choice = "mode") :
  \E typedKey \in KeysFor(choice = "apikey" \/ (choice = "mode" /\ confirm)),
     enable \in AnswersFor(choice = "notifications") :
    /\ \E win \in BOOLEAN : choice \in ReconfigureChoices(win)
    /\ prompted' = ReconfigurePrompts(configFile, choice, confirm)
    /\ ApplyConfig("configure",
                   Reconfigure(configFile, choice, confirm, typedKey, enable))
    /\ UNCHANGED << installAdded, installs, storeVars, hookVars,
                    sideVars >>

\* switchMode
SwitchMode ==
  \E confirm \in BOOLEAN :
  \E typedKey \in KeysFor(confirm) :
    /\ prompted' = (LoadConfig(configFile) # Null /\ confirm
                      /\ SwitchModePrompts(LoadConfig(configFile)))
    /\ ApplyConfig("switch-mode",
                   InstallerSwitchMode(configFile, confirm, typedKey))
    /\ UNCHANGED << installAdded, installs, storeVars, hookVars,
                    sideVars >>

\* process.argv[2] values that reach showHelp; "" is no subcommand at all
HelpWords == {"help", "--help", "-h"}

DispatchWords == HelpWords \cup {"frobnicate", ""}

\* a dispatcher that leaves the exit status alone after printing usage
DispatchExitZero(command) == 0

\* the exit status of the help and default cases of the main switch
DispatchExit(command) == IF command \in HelpWords THEN 0 ELSE 1

\* the main switch on a word that is not install, uninstall or status:
\* showHelp(), preceded by "Unknown command" for a word it does not know
Dispatch ==
  \E command \in DispatchWords :
    /\ Done(command,
            IF command \in HelpWords \cup {""} THEN "usage" ELSE "unknown",
            DispatchExit(command))
    /\ prompted' = FALSE
    /\ UNCHANGED << settingsFile, configFile, claudeFile, installAdded,
                    installs, storeVars, hookVars, sideVars >>

\* command.includes(needle) for a command line node "<dir>/<script>" <args>:
\* the package name can only occur in the directory, a script name only as
\* the script
Includes(command, needle) ==
  IF needle = "claude-audio-hooks"
  THEN command.dir = "/opt/claude-audio-hooks/dist"
  ELSE command.script = needle

\* isInstalled in showStatus
IsInstalled(command) ==
  \/ Includes(command, "claude-audio-hooks")
  \/ Includes(command, "working.js")
  \/ Includes(command, "notification.js")
  \/ Includes(command, "stop.js")

\* the mark showStatus prints for one hook type
HookStatus(hooks, hookType) ==
  IF ~Has(hooks, hookType) \/ Len(hooks[hookType]) = 0 THEN "missing"
  ELSE IF Len(hooks[hookType][1].hooks) = 0 THEN "other"
  ELSE IF IsInstalled(hooks[hookType][1].hooks[1].command) THEN "own"
  ELSE "other"

\* showStatus
Status ==
  LET config == LoadConfig(configFile) IN
  /\ cmd' =
       IF ~LoadSettingsOk(settingsFile)
       THEN [name |-> "status", outcome |-> "failed", exit |-> 1,
             writes |-> << >>, report |-> EmptyDoc]
       ELSE IF config = Null
       THEN [name |-> "status", outcome |-> "noconfig", exit |-> 0,
             writes |-> << >>, report |-> EmptyDoc]
       ELSE IF ~Has(settingsFile.doc, "hooks")
       THEN [name |-> "status", outcome |-> "nohooks", exit |-> 0,
             writes |-> << >>, report |-> EmptyDoc]
       ELSE [name |-> "status", outcome |-> "ok", exit |-> 0,
             writes |-> << >>,
             report |-> [k \in HookTypes |->
                           HookStatus(settingsFile.doc.hooks, k)]]
  /\ prompted' = FALSE
  /\ UNCHANGED << settingsFile, configFile, claudeFile, distPath, settings0,
                  installAdded, installs, storeVars, hookVars, sideVars >>

NextCli == Install \/ Uninstall \/ Configure \/ SwitchMode \/ Status

SpecCli == Init /\ [][NextCli]_vars

\* the dispatcher on its own: it reads no file, so what ran before it does
\* not matter
SpecDispatch == Init /\ [][Dispatch]_vars

----------------------------------------------------------------------------
(* Direct calls of the ConfigManager operations                            *)

ValidConfigs ==
  { CreateDefaultConfig(m, k, sel, now) :
      m \in Modes, k \in ApiKeys \cup {Undefined},
      sel \in SoundSelections, now \in Times }

InitStoreSpec ==
  /\ settingsFile = MissingFile
  /\ configFile \in {MissingFile, EmptyFile, BadFile(EmptyDoc)}
                      \cup { Stringify(c) : c \in ValidConfigs }
  /\ claudeFile \in InitialClaudeFiles
  /\ distPath \in DistPaths
  /\ cmd = NoCmd
  /\ settings0 = settingsFile
  /\ installAdded = {}
  /\ installs = 0
  /\ prompted = FALSE
  /\ InitStore
  /\ InitHooks
  /\ InitSide

StoreFrame == UNCHANGED << settingsFile, distPath, cmd, settings0,
                           installAdded, installs, prompted, hookVars,
                           sideVars >>

CallSaveConfig ==
  \E c \in ValidConfigs :
    /\ configFile' = SaveConfig(c)
    /\ store' = [op |-> "saveConfig", arg |-> c, result |-> Null,
                 before |-> configFile, afterSave |-> FALSE]
    /\ UNCHANGED claudeFile
    /\ StoreFrame

CallLoadConfig ==
  /\ store' = [op |-> "loadConfig", arg |-> store.arg,
               result |-> LoadConfig(configFile),
               before |-> IF store.op = "saveConfig" THEN store.before
                          ELSE configFile,
               afterSave |-> (store.op = "saveConfig")]
  /\ UNCHANGED << configFile, claudeFile >>
  /\ StoreFrame

CallRemoveConfig ==
  /\ configFile' = RemoveConfig(configFile)
  /\ store' = [op |-> "removeConfig", arg |-> Null, result |-> Null,
               before |-> configFile, afterSave |-> FALSE]
  /\ UNCHANGED claudeFile
  /\ StoreFrame

CallConfigureElevenLabsMcp ==
  \E apiKey \in ApiKeys :
    /\ claudeFile' = ConfigureElevenLabsMcp(claudeFile, apiKey)
    /\ store' = [op |-> "configureElevenLabsMcp", arg |-> apiKey,
                 result |-> Null, before |-> claudeFile, afterSave |-> FALSE]
    /\ UNCHANGED configFile
    /\ StoreFrame

CallRemoveElevenLabsMcp ==
  /\ claudeFile' = RemoveElevenLabsMcp(claudeFile)
  /\ store' = [op |-> "removeElevenLabsMcp", arg |-> Null, result |-> Null,
               before |-> claudeFile, afterSave |-> FALSE]
  /\ UNCHANGED configFile
  /\ StoreFrame

NextStore ==
  \/ CallSaveConfig \/ CallLoadConfig \/ CallRemoveConfig
  \/ CallConfigureElevenLabsMcp \/ CallRemoveElevenLabsMcp

SpecStore == InitStoreSpec /\ [][NextStore]_vars

----------------------------------------------------------------------------
(* Event logger and sound resolver (utils.ts)                              *)

EventTypes == {"working", "notifications", "stop"}

\* new Date().toISOString() at instant now; a string that parses as a date
ToISOString(now) == [iso |-> TRUE, t |-> now]

\* a payload string that is not a date
NotADate == [iso |-> FALSE, t |-> 0]

ParsesAsDate(v) == v.iso

\* { timestamp: new Date().toISOString(), ...data }: data's keys come last
LogRecord(data, now) ==
  [x \in (DOMAIN data) \cup {"timestamp"} |->
     IF x \in DOMAIN data THEN data[x] ELSE ToISOString(now)]

\* a logEvent that starts from an empty array whatever the file holds
LogEventTruncating(file, data, now) ==
  [kind |-> "json", doc |-> << LogRecord(data, now) >>]

\* logEvent: read the whole array, push, overwrite the file
LogEvent(file, data, now) ==
  LET old == IF existsSync(file) /\ Parses(file) THEN file.doc ELSE << >>
  IN [kind |-> "json", doc |-> Append(old, LogRecord(data, now))]

Platforms == {"darwin", "win32", "linux"}

\* getSoundPath, the revision that prefers ~/.claude (part_003 38-57)
GetSoundPathUserFirst(userExists, bundledExists) ==
  IF userExists THEN "user" ELSE "bundled"

\* getSoundPath, the revision that prefers the package (utils.ts 37-47)
GetSoundPathPackageFirst(userExists, bundledExists) ==
  IF bundledExists THEN "bundled" ELSE "user"

GetSoundPath(rev, userExists, bundledExists) ==
  IF rev = "user-first" THEN GetSoundPathUserFirst(userExists, bundledExists)
  ELSE GetSoundPathPackageFirst(userExists, bundledExists)

SoundPathRevisions == {"user-first", "package-first"}

\* existsSync of a resolved sound path
SoundExists(path, userExists, bundledExists) ==
  IF path = "user" THEN userExists ELSE bundledExists

\* the player command line chosen for a platform
PlayerCommand(platform) ==
  IF platform = "darwin" THEN "afplay"
  ELSE IF platform = "win32" THEN "powershell"
  ELSE "mpg123||paplay||play"

Players == {"afplay", "powershell", "mpg123||paplay||play"}

----------------------------------------------------------------------------
(* Hook handlers: standard input and payloads                              *)

InvalidJson == [kind |-> "invalid", data |-> EmptyDoc]
JsonNull    == [kind |-> "null",    data |-> EmptyDoc]
JsonObject(d) == [kind |-> "object", data |-> d]

WorkingPayloads ==
  { EmptyDoc,
    [task |-> "Edit"],
    [task |-> "", tool |-> "Bash", action |-> "run"],
    [action |-> "plan"],
    [tool |-> "Read", timestamp |-> NotADate] }

NotificationPayloads ==
  { EmptyDoc, [message |-> "Permission needed", type |-> "permission"] }

StopPayloads ==
  { EmptyDoc, [result |-> "done"], [summary |-> "ok", timestamp |-> NotADate] }

\* stop payloads that name a transcript file
ChatPayloads ==
  { [result |-> "done", transcript_path |-> "/tmp/session.jsonl"],
    [summary |-> "ok", transcript_path |-> ""] }

LogPayloads ==
  { EmptyDoc, [task |-> "Edit"], [tool |-> "Read", timestamp |-> NotADate] }

Stdin(payloads) == {InvalidJson, JsonNull} \cup { JsonObject(d) : d \in payloads }

\* JSON.parse(input) returns
ParsesInput(input) == input.kind # "invalid"

Truthy(data, k) == Has(data, k) /\ data[k] # ""

\* data.task ?? data.tool ?? data.action ?? "Working"
TaskLabelNullish(data) ==
  IF Has(data, "task") THEN data.task
  ELSE IF Has(data, "tool") THEN data.tool
  ELSE IF Has(data, "action") THEN data.action
  ELSE "Working"

\* data.task || data.tool || data.action || "Working"
TaskLabel(data) ==
  IF Truthy(data, "task") THEN data.task
  ELSE IF Truthy(data, "tool") THEN data.tool
  ELSE IF Truthy(data, "action") THEN data.action
  ELSE "Working"

\* data.result || data.summary || "Task completed"
StopResult(data) ==
  IF Truthy(data, "result") THEN data.result
  ELSE IF Truthy(data, "summary") THEN data.summary
  ELSE "Task completed"

TotalLogged ==
  Len(logged["working"]) + Len(logged["notifications"]) + Len(logged["stop"])

\* os.platform(), WSL_DISTRO_NAME (set on Linux only), and whether the sound
\* file exists under ~/.claude and under the package's sounds directory
Machines ==
  { m \in [platform : Platforms, wsl : BOOLEAN, userExists : BOOLEAN,
           bundledExists : BOOLEAN] : m.wsl => m.platform = "linux" }

Flags == [notify : BOOLEAN, speak : BOOLEAN, chat : BOOLEAN]

NoFlags == [notify |-> FALSE, speak |-> FALSE, chat |-> FALSE]

\* exit status of a function that returns without ending the process
NoExit == 3

\* what an invocation did: exit status, setTerminalStatus / title calls,
\* the commands handed to exec, the messages on stderr, and how the
\* returned promise settled (playSound, playCompletionSound)
Outcome(handler, input, flags, exit, status, execs, err, settled) ==
  [handler |-> handler, stdin |-> input, flags |-> flags,
   exit |-> exit, status |-> status, execs |-> execs, err |-> err,
   settled |-> settled]

\* logEvent(eventType, data) as a step of a handler
Logs(eventType, data, now) ==
  /\ logs' = [logs EXCEPT ![eventType] = LogEvent(@, data, now)]
  /\ logged' = [logged EXCEPT ![eventType] = Append(@, data)]

HookFrame == UNCHANGED << cliVars, storeVars, machine, procs, tts, anim >>

\* a handler other than on-stop: the chat log stays as it is, and the process
\* reads no transcript and takes none of on-stop's last steps
ChatFrame == chat' = [log |-> chat.log, transcript |-> NoTranscript, trace |-> << >>]

----------------------------------------------------------------------------
(* Hook handlers                                                           *)

\* on-tool-start (working.ts)
RunWorking ==
  \E input \in Stdin(WorkingPayloads), now \in Times :
    /\ IF ~ParsesInput(input)
       THEN /\ run' = Outcome("working", input, NoFlags, 2, << >>, << >>,
                              << "Error processing working state" >>, "none")
            /\ UNCHANGED << logs, logged >>
       ELSE /\ TotalLogged < MaxRuns
            /\ Logs("working", input.data, now)
            /\ IF input.kind = "null"
               THEN \* data.task on null throws inside the try block
                    run' = Outcome("working", input, NoFlags, 2, << >>,
                                   << >>, << "Error processing working state" >>,
                                   "none")
               ELSE run' = Outcome("working", input, NoFlags, 0,
                                   << [status |-> "working",
                                       message |-> TaskLabel(input.data) \o "..."] >>,
                                   << >>, << >>, "none")
    /\ HookFrame
    /\ ChatFrame

\* a sound branch that skips quietly when there is no file to play
SoundBranchQuiet(rev, playerFails) ==
  LET soundFile == GetSoundPath(rev, machine.userExists, machine.bundledExists)
      found == SoundExists(soundFile, machine.userExists, machine.bundledExists)
  IN IF found \/ machine.platform = "darwin"
     THEN [execs |-> << PlayerCommand(machine.platform) >>,
           err |-> IF playerFails THEN << "Error playing sound" >> ELSE << >>]
     ELSE [execs |-> << >>, err |-> << >>]

\* the exec calls and stderr lines of the sound branch of a handler:
\* the resolved file when it exists, the macOS system sound, or an error
SoundBranch(rev, playerFails) ==
  LET soundFile == GetSoundPath(rev, machine.userExists, machine.bundledExists)
      found == SoundExists(soundFile, machine.userExists, machine.bundledExists)
  IN IF found \/ machine.platform = "darwin"
     THEN [execs |-> << PlayerCommand(machine.platform) >>,
           err |-> IF playerFails THEN << "Error playing sound" >> ELSE << >>]
     ELSE [execs |-> << >>, err |-> << "Sound file not found" >>]

\* say "<message>" on macOS behind --speak
SpeakBranch(playerFails) ==
  [execs |-> << "say" >>,
   err |-> IF playerFails THEN << "Error speaking notification" >> ELSE << >>]

\* the exit status handed to process.exit by a player or speech callback
\* that treats a failed command as a failure of the hook
CallbackExitOnError(playerFails) == IF playerFails THEN 1 ELSE 0

\* the exit status handed to process.exit after the player or speech
\* command has returned, with or without an error
CallbackExit(playerFails) == 0

\* data.message || data.type || 'Attention needed'
AttentionTitle(data) ==
  IF Truthy(data, "message") THEN data.message
  ELSE IF Truthy(data, "type") THEN data.type
  ELSE "Attention needed"

\* on-notification (notification.ts)
RunNotification ==
  \E input \in Stdin(NotificationPayloads), now \in Times,
     rev \in SoundPathRevisions, playerFails \in BOOLEAN,
     notify \in BOOLEAN, speak \in BOOLEAN :
    LET flags == [notify |-> notify, speak |-> speak, chat |-> FALSE]
        toast == IF machine.platform = "win32" \/ machine.wsl
                 THEN << "wsl-notify-send" >> ELSE << >>
        branch == IF speak /\ machine.platform = "darwin"
                  THEN SpeakBranch(playerFails)
                  ELSE SoundBranch(rev, playerFails)
    IN
    /\ IF ~ParsesInput(input)
       THEN /\ run' = Outcome("notification", input, flags, 2, << >>, << >>,
                              << "Error processing notification" >>, "none")
            /\ UNCHANGED << logs, logged >>
       ELSE /\ TotalLogged < MaxRuns
            /\ Logs("notifications", input.data, now)
            /\ IF ~notify
               THEN run' = Outcome("notification", input, flags, 0, << >>,
                                   << >>, << >>, "none")
               ELSE IF input.kind = "null"
               THEN run' = Outcome("notification", input, flags, 2, << >>,
                                   << >>, << "Error processing notification" >>,
                                   "none")
               ELSE run' = Outcome("notification", input, flags,
                                   IF branch.execs = << >> THEN 0
                                   ELSE CallbackExit(playerFails),
                                   << [status |-> "attention",
                                       message |-> AttentionTitle(input.data)] >>,
                                   toast \o branch.execs, branch.err, "none")
    /\ HookFrame
    /\ ChatFrame

\* a line of the transcript file: blank, not JSON, or a JSON value
BlankLine == [kind |-> "blank", value |-> ""]
BadLine   == [kind |-> "bad",   value |-> "{oops"]
JsonLine(v) == [kind |-> "json", value |-> v]

TranscriptOf(lines) == [kind |-> "text", lines |-> lines]

Transcripts ==
  { NoTranscript,
    TranscriptOf(<< >>),
    TranscriptOf(<< BadLine >>),
    TranscriptOf(<< JsonLine("user"), BlankLine, BadLine, JsonLine("assistant") >>),
    TranscriptOf(<< JsonLine("assistant"), JsonLine("user") >>) }

\* content.split('\n').filter(line => line.trim()), then JSON.parse of each
\* line inside a try block that skips the line when it throws
ChatData(lines) ==
  LET parsed == SelectSeq(lines, LAMBDA l : l.kind = "json")
  IN [i \in 1..Len(parsed) |-> parsed[i].value]

\* a stop handler that processes the transcript whenever the payload names one
WritesChatAlways(flags, data, transcript) ==
  Truthy(data, "transcript_path") /\ transcript.kind # "missing"

\* afterNotification reaches writeFileSync(chatLogFile, ...)
WritesChat(flags, data, transcript) ==
  flags.chat /\ Truthy(data, "transcript_path") /\ transcript.kind # "missing"

\* the files a payload can name, one placeholder when it names none
TranscriptsFor(named) == IF named THEN Transcripts ELSE {NoTranscript}

\* the order of the handler's last steps: the sound or speech command and
\* its callback, the chat log write in afterNotification, process.exit
StopTrace(execs, wrote) ==
  (IF execs # << >> THEN << "exec", "returned" >> ELSE << >>)
    \o (IF wrote THEN << "write" >> ELSE << >>) \o << "exit" >>

\* on-stop (stop.ts) on a payload drawn from payloads, started with or
\* without --chat as chatFlags allows
StopHandler(payloads, chatFlags) ==
  \E input \in Stdin(payloads), now \in Times,
     rev \in SoundPathRevisions, playerFails \in BOOLEAN,
     speak \in BOOLEAN, chatFlag \in chatFlags :
  \E transcript \in TranscriptsFor(input.kind = "object"
                                      /\ Truthy(input.data, "transcript_path")) :
    LET flags == [notify |-> FALSE, speak |-> speak, chat |-> chatFlag]
        branch == IF speak /\ machine.platform = "darwin"
                  THEN SpeakBranch(playerFails)
                  ELSE SoundBranch(rev, playerFails)
        wrote == WritesChat(flags, input.data, transcript)
    IN
    /\ IF ~ParsesInput(input)
       THEN /\ run' = Outcome("stop", input, flags, 1, << >>, << >>,
                              << "Error processing stop event" >>, "none")
            /\ chat' = [chat EXCEPT !.transcript = transcript,
                                    !.trace = << "exit" >>]
            /\ UNCHANGED << logs, logged >>
       ELSE /\ TotalLogged < MaxRuns
            /\ Logs("stop", input.data, now)
            /\ IF input.kind = "null"
               THEN /\ run' = Outcome("stop", input, flags, 1, << >>, << >>,
                                      << "Error processing stop event" >>,
                                      "none")
                    /\ chat' = [chat EXCEPT !.transcript = transcript,
                                            !.trace = << "exit" >>]
               ELSE /\ run' = Outcome("stop", input, flags,
                                      IF branch.execs = << >> THEN 0
                                      ELSE CallbackExit(playerFails),
                                      << [status |-> "completed",
                                          message |-> StopResult(input.data)] >>,
                                      branch.execs, branch.err, "none")
                    /\ chat' =
                         [log |-> IF wrote
                                  THEN [kind |-> "json",
                                        doc |-> ChatData(transcript.lines)]
                                  ELSE chat.log,
                          transcript |-> transcript,
                          trace |-> StopTrace(branch.execs, wrote)]
    /\ HookFrame

\* on-stop without --chat on a payload without a transcript
RunStop == StopHandler(StopPayloads, {FALSE})

\* on-stop on any payload, with or without --chat
RunStopChat == StopHandler(StopPayloads \cup ChatPayloads, BOOLEAN)

----------------------------------------------------------------------------
(* Sound playback outside the handlers                                     *)

SoundArg(soundFile) == [kind |-> "arg", data |-> [soundFile |-> soundFile]]

\* playSound(soundFile): Promise<void>   (utils.ts, readline revision)
PlaySound ==
  \E soundFile \in {"", "on-agent-complete.mp3"}, playerFails \in BOOLEAN :
    LET soundPath == GetSoundPathUserFirst(machine.userExists,
                                           machine.bundledExists)
        found == SoundExists(soundPath, machine.userExists,
                             machine.bundledExists)
    IN
    /\ run' =
         IF soundFile = ""
         THEN Outcome("playSound", SoundArg(soundFile), NoFlags, NoExit,
                      << >>, << >>, << >>, "resolved")
         ELSE IF ~found
         THEN Outcome("playSound", SoundArg(soundFile), NoFlags, NoExit,
                      << >>, << >>, << "Sound file not found" >>, "rejected")
         ELSE IF playerFails
         THEN Outcome("playSound", SoundArg(soundFile), NoFlags, NoExit,
                      << >>, << PlayerCommand(machine.platform) >>,
                      << "Error playing sound" >>, "rejected")
         ELSE Outcome("playSound", SoundArg(soundFile), NoFlags, NoExit,
                      << >>, << PlayerCommand(machine.platform) >>, << >>,
                      "resolved")
    /\ UNCHANGED << logs, logged >>
    /\ HookFrame
    /\ ChatFrame

\* SoundManager.getSoundById(id).file from the bundled sound-config.json;
\* "" stands for file: null (silence)
SoundFileOf(id) ==
  IF id = "complete" THEN "on-agent-complete.mp3"
  ELSE IF id = "attention" THEN "on-agent-need-attention.mp3"
  ELSE ""

\* getEventSoundPath(file, eventType): the user override location first,
\* then the bundled location
GetEventSoundPath(userExists, bundledExists) ==
  IF userExists THEN "user" ELSE "bundled"

\* playCompletionSound(): Promise<void>   (cli.ts)
PlayCompletionSound ==
  \E playerFails \in BOOLEAN :
    LET config == LoadConfig(configFile)
        soundFile == GetEventSoundPath(machine.userExists,
                                       machine.bundledExists)
        found == SoundExists(soundFile, machine.userExists,
                             machine.bundledExists)
        quiet == Outcome("playCompletionSound", SoundArg(""), NoFlags,
                         NoExit, << >>, << >>, << >>, "resolved")
    IN
    /\ run' =
         IF config = Null THEN quiet
         ELSE IF SoundFileOf(config.soundSelection.completion) = "" THEN quiet
         ELSE IF ~found
         THEN Outcome("playCompletionSound",
                      SoundArg(SoundFileOf(config.soundSelection.completion)),
                      NoFlags, NoExit, << >>, << >>, << >>, "resolved")
         ELSE Outcome("playCompletionSound",
                      SoundArg(SoundFileOf(config.soundSelection.completion)),
                      NoFlags, NoExit, << >>,
                      << PlayerCommand(machine.platform) >>, << >>, "resolved")
    /\ UNCHANGED << logs, logged >>
    /\ HookFrame
    /\ ChatFrame

InitRun ==
  /\ settingsFile = MissingFile
  /\ configFile \in {MissingFile}
       \cup { Stringify(CreateDefaultConfig("standard", Undefined, sel, 1)) :
                sel \in SoundSelections }
  /\ claudeFile = MissingFile
  /\ distPath = "/srv/hooks/dist"
  /\ cmd = NoCmd
  /\ settings0 = settingsFile
  /\ installAdded = {}
  /\ installs = 0
  /\ prompted = FALSE
  /\ InitStore
  /\ logs = [e \in EventTypes |-> MissingFile]
  /\ logged = [e \in EventTypes |-> << >>]
  /\ machine \in Machines
  /\ run = NoRun
  /\ InitSide

\* logEvent called directly
CallLogEvent ==
  \E eventType \in EventTypes, data \in LogPayloads, now \in Times :
    /\ TotalLogged < MaxLog
    /\ Logs(eventType, data, now)
    /\ UNCHANGED run
    /\ HookFrame
    /\ ChatFrame

SpecLog == InitRun /\ [][CallLogEvent]_vars

NextRun ==
  \/ RunWorking \/ RunNotification \/ RunStop
  \/ PlaySound \/ PlayCompletionSound

SpecRun == InitRun /\ [][NextRun]_vars

----------------------------------------------------------------------------
(* Sound resolution called directly                                        *)

SoundFiles == {"on-agent-complete.mp3", "on-agent-need-attention.mp3"}

\* getSoundPath(soundFile) in either revision of utils.ts
CallGetSoundPath ==
  \E rev \in SoundPathRevisions, soundFile \in SoundFiles :
    /\ store' = [op |-> "getSoundPath",
                 arg |-> [rev |-> rev, soundFile |-> soundFile],
                 result |-> GetSoundPath(rev, machine.userExists,
                                         machine.bundledExists),
                 before |-> MissingFile, afterSave |-> FALSE]
    /\ UNCHANGED << cliVars, hookVars, sideVars >>

SpecSound == InitRun /\ [][CallGetSoundPath]_vars

----------------------------------------------------------------------------
(* Properties                                                              *)

FourHookKeys == {"PreToolUse", "Notification", "Stop", "SubagentStop"}

HooksOf(doc) == IF Has(doc, "hooks") THEN doc.hooks ELSE EmptyDoc

\* the keys of host settings the tool has no business with
UnrelatedKeys(doc) ==
  [top   |-> Except(doc, {"hooks"}),
   hooks |-> Except(HooksOf(doc), FourHookKeys)]

\* C1: after a successful uninstall that follows an install, none of the
\* entries install wrote (PreToolUse, Notification, Stop, and SubagentStop
\* when install created it) is left in host settings, and every unrelated
\* key still has the value it had before.
C1_UninstallRemovesWhatInstallAdded ==
  (cmd.name = "uninstall" /\ cmd.outcome = "ok") =>
     /\ \A k \in installAdded : ~Has(HooksOf(settingsFile.doc), k)
     /\ UnrelatedKeys(settingsFile.doc) = UnrelatedKeys(settings0.doc)

\* exactly one matcher entry holding exactly one command
OneRegistration(hooks, k) ==
  /\ Has(hooks, k)
  /\ Len(hooks[k]) = 1
  /\ Len(hooks[k][1].hooks) = 1

\* C2: once install has succeeded two or more times with no uninstall in
\* between, host settings hold exactly one registration for each of
\* PreToolUse, Notification and Stop, whatever the modes chosen.
C2_InstallTwiceNoDuplicates ==
  (cmd.name = "install" /\ installs = 2) =>
     /\ Parses(settingsFile)
     /\ \A k \in HookTypes : OneRegistration(HooksOf(settingsFile.doc), k)

C2_Witness ==
  /\ cmd.name = "install" /\ cmd.outcome = "ok" /\ installs = 2
  /\ Has(HooksOf(settings0.doc), "PreToolUse")
  /\ Len(settings0.doc.hooks.PreToolUse) = 2
  /\ LoadConfig(configFile).mode = "tts"

OtherEntries(file) ==
  [top     |-> Except(file.doc, {"mcpServers"}),
   servers |-> IF Has(file.doc, "mcpServers")
               THEN Except(file.doc.mcpServers, {"elevenlabs"})
               ELSE EmptyDoc]

\* C4: configureElevenLabsMcp and removeElevenLabsMcp leave every other
\* server entry and every other top-level key of the integration document
\* as it was on disk before the call, whatever the file held.
C4_OtherServersUntouched ==
  store.op \in {"configureElevenLabsMcp", "removeElevenLabsMcp"} =>
     OtherEntries(claudeFile) = OtherEntries(store.before)

DefinedKeys(doc) == {k \in DOMAIN doc : ~IsUndefined(doc, k)}

\* equality of JSON documents: the same keys with the same values, a
\* property whose value is undefined counting as not there
JsonEqual(a, b) ==
  /\ DefinedKeys(a) = DefinedKeys(b)
  /\ \A k \in DefinedKeys(a) : a[k] = b[k]

Handlers == {"working", "notification", "stop"}

\* C6: a handler run whose standard input is not valid JSON exits with
\* status 2 and leaves every event log as it was.
C6_MalformedInputExits2 ==
  [][ (run'.handler \in Handlers /\ run'.stdin.kind = "invalid")
        => (run'.exit = 2 /\ logs' = logs) ]_vars

\* the record holds every field of the payload
ContainsPayload(rec, data) == \A k \in DOMAIN data : Has(rec, k) /\ rec[k] = data[k]

\* C7: after N logEvent calls for an event type, from no log file, the log
\* is an array of N records in call order, record i holding the fields of
\* the i-th payload and a timestamp that parses as a date.
C7_LogAppendOnly ==
  \A e \in EventTypes :
    IF logged[e] = << >> THEN logs[e] = MissingFile
    ELSE /\ logs[e].kind = "json"
         /\ Len(logs[e].doc) = Len(logged[e])
         /\ \A i \in 1..Len(logged[e]) :
              /\ ContainsPayload(logs[e].doc[i], logged[e][i])
              /\ Has(logs[e].doc[i], "timestamp")
              /\ ParsesAsDate(logs[e].doc[i].timestamp)

\* C8: a switch-mode that goes through flips the mode; going to tts it asks
\* for an API key exactly when none is stored and otherwise keeps the
\* stored key; going to standard it never asks; every other field of the
\* stored configuration is carried over.
C8_SwitchModePromptsOnlyWithoutKey ==
  [][ (cmd'.name = "switch-mode" /\ cmd'.outcome \in {"ok", "failed"}) =>
        LET old == LoadConfig(configFile)
            new == LoadConfig(configFile')
        IN /\ old # Null /\ new # Null
           /\ new.mode # old.mode
           /\ old.mode = "standard" =>
                /\ prompted' <=> ~Has(old, "elevenLabsApiKey")
                /\ Has(new, "elevenLabsApiKey")
                /\ Has(old, "elevenLabsApiKey") =>
                     new.elevenLabsApiKey = old.elevenLabsApiKey
           /\ old.mode = "tts" =>
                /\ ~prompted'
                /\ Except(new, {"mode"}) = Except(old, {"mode"})
           /\ Except(new, {"mode", "elevenLabsApiKey"})
                = Except(old, {"mode", "elevenLabsApiKey"}) ]_vars

C8_Witness ==
  /\ cmd.name = "switch-mode" /\ cmd.outcome = "ok"
  /\ ~prompted
  /\ LoadConfig(configFile) # Null
  /\ LoadConfig(configFile).mode = "tts"
  /\ LoadConfig(configFile).elevenLabsApiKey = [key |-> 2]
  /\ LoadConfig(configFile).soundSelection.completion = "silent"

\* the first of task, tool, action that is a non-empty string
FirstNonEmpty(data, keys) ==
  LET idx == {i \in 1..Len(keys) : Has(data, keys[i]) /\ data[keys[i]] # ""}
  IN IF idx = {} THEN "Working"
     ELSE data[keys[CHOOSE i \in idx : \A j \in idx : i <= j]]

\* C9: on-tool-start given a JSON object appends to the working log a record
\* with the payload fields and a timestamp, dispatches one working status
\* whose label is the first non-empty of task, tool, action, else
\* "Working", followed by "...", and exits 0.
C9_WorkingLogsAndLabels ==
  (run.handler = "working" /\ run.stdin.kind = "object") =>
     LET data == run.stdin.data
         log == logs["working"]
     IN /\ log.kind = "json" /\ Len(log.doc) = Len(logged["working"])
        /\ Len(log.doc) >= 1
        /\ ContainsPayload(log.doc[Len(log.doc)], data)
        /\ Has(log.doc[Len(log.doc)], "timestamp")
        /\ run.status =
             << [status |-> "working",
                 message |-> FirstNonEmpty(data, <<"task", "tool", "action">>)
                               \o "..."] >>
        /\ (data = [task |-> "Edit"] => run.status[1].message = "Edit...")
        /\ run.exit = 0

C9_Witness ==
  /\ run.handler = "working" /\ run.stdin.kind = "object"
  /\ Has(run.stdin.data, "task") /\ run.stdin.data.task = ""
  /\ run.status[1].message = "Bash..."
  /\ run.exit = 0

\* C11: sound resolution returns the user's file whenever it exists, and
\* the bundled location only when the user's file does not exist.
C11_UserSoundFirst ==
  store.op = "getSoundPath" =>
     /\ machine.userExists => store.result = "user"
     /\ store.result = "bundled" => ~machine.userExists

NoConfigFound(file) == file.kind \in {"missing", "empty", "bad"}

\* C13: uninstall with a configuration file that is missing, empty or
\* unparseable reports it, exits 0, and leaves host settings, the
\* integration document and the configuration file as they were.
C13_UninstallWithoutConfigIsNoOp ==
  [][ (cmd'.name = "uninstall" /\ NoConfigFound(configFile)) =>
        /\ cmd'.outcome = "noconfig" /\ cmd'.exit = 0
        /\ UNCHANGED << settingsFile, claudeFile, configFile >> ]_vars

C13_Witness ==
  /\ cmd.name = "uninstall" /\ cmd.outcome = "noconfig" /\ cmd.exit = 0
  /\ configFile.kind = "bad"
  /\ Parses(settingsFile)
  /\ Has(HooksOf(settingsFile.doc), "PreToolUse")
  /\ Has(LoadClaudeConfig(claudeFile), "mcpServers")

\* C14: uninstall with a configuration found and readable host settings
\* removes the three registrations, removes the elevenlabs entry when the
\* stored mode was tts, and empties the configuration so that loadConfig
\* afterwards finds none.
C14_UninstallRemovesEverything ==
  [][ (cmd'.name = "uninstall" /\ LoadConfig(configFile) # Null
         /\ LoadSettingsOk(settingsFile)) =>
        /\ cmd'.exit = 0
        /\ \A k \in HookTypes : ~Has(HooksOf(settingsFile'.doc), k)
        /\ (LoadConfig(configFile).mode = "tts"
              /\ Has(LoadClaudeConfig(claudeFile'), "mcpServers")) =>
             ~Has(LoadClaudeConfig(claudeFile').mcpServers, "elevenlabs")
        /\ LoadConfig(configFile') = Null ]_vars

\* C15: the wizard returns the cancellation signal when reconfiguring is
\* declined, when the final confirmation is declined and when a prompt
\* fails; an install that ends that way exits 0 and leaves the
\* configuration file, host settings and the integration document alone.
C15_CancelledInstallWritesNothing ==
  [][ cmd'.name = "install" =>
        /\ \A reinstall \in BOOLEAN, confirmed \in BOOLEAN, threw \in BOOLEAN :
              WizardCancels(configFile, reinstall, confirmed, threw) <=>
                RunGuidedInstallation(configFile, reinstall, "tts", [key |-> 1],
                  [notification |-> "attention", completion |-> "complete"],
                  confirmed, 1, threw) = Null
        /\ cmd'.outcome = "cancelled" =>
              /\ cmd'.exit = 0
              /\ UNCHANGED << settingsFile, configFile, claudeFile >>
        /\ cmd'.outcome # "cancelled" => LoadConfig(configFile') # Null ]_vars

C15_Witness ==
  /\ cmd.name = "install" /\ cmd.outcome = "cancelled" /\ cmd.exit = 0
  /\ LoadConfig(configFile) # Null
  /\ LoadConfig(configFile).mode = "tts"
  /\ installs = 1

Commands == {"install", "uninstall", "configure", "switch-mode"}

\* the document holds everything the command set out to change
WholeChange(name, doc) ==
  IF name = "uninstall"
  THEN \A k \in HookTypes : ~Has(HooksOf(doc), k)
  ELSE \A k \in HookTypes : OneRegistration(HooksOf(doc), k)

\* C16: every command hands host settings to saveSettings at most once,
\* with the whole document after all its changes; a command that fails
\* or is cancelled has not written host settings at all.
C16_SettingsWrittenOnceWhole ==
  [][ cmd'.name \in Commands =>
        /\ Len(cmd'.writes) <= 1
        /\ IF cmd'.writes = << >>
           THEN settingsFile' = settingsFile
           ELSE /\ cmd'.outcome = "ok"
                /\ settingsFile' = Stringify(cmd'.writes[1])
                /\ WholeChange(cmd'.name, cmd'.writes[1])
                /\ UnrelatedKeys(cmd'.writes[1]) = UnrelatedKeys(settingsFile.doc)
        /\ cmd'.outcome = "ok" => cmd'.writes # << >> ]_vars

C16_Witness ==
  /\ cmd.name = "install" /\ cmd.outcome = "failed" /\ cmd.exit = 1
  /\ cmd.writes = << >>
  /\ settingsFile.kind = "bad"
  /\ LoadConfig(configFile) # Null

ExpectedScript(mode, hookType) ==
  IF hookType = "PreToolUse" THEN << "working.js", "" >>
  ELSE IF hookType = "Notification"
  THEN IF mode = "tts" THEN << "tts-summary.js", "notification" >>
       ELSE << "notification.js", "--notify" >>
  ELSE IF mode = "tts" THEN << "tts-summary.js", "stop" >>
       ELSE << "stop.js", "--chat" >>

\* C19: after a successful install, configure or switch-mode the command
\* registered for each hook type is the one of the mode stored in the
\* saved configuration.
C19_RegisteredCommandsMatchMode ==
  (cmd.name \in {"install", "configure", "switch-mode"} /\ cmd.outcome = "ok") =>
     /\ LoadConfig(configFile) # Null
     /\ Parses(settingsFile)
     /\ \A k \in HookTypes :
          /\ OneRegistration(HooksOf(settingsFile.doc), k)
          /\ LET c == settingsFile.doc.hooks[k][1].hooks[1].command
             IN /\ << c.script, c.args >>
                     = ExpectedScript(LoadConfig(configFile).mode, k)
                /\ c.dir = distPath

C19_Witness ==
  /\ cmd.name = "switch-mode" /\ cmd.outcome = "ok"
  /\ installs = 1
  /\ LoadConfig(configFile).mode = "tts"
  /\ settingsFile.doc.hooks.Notification[1].hooks[1].command.script
       = "tts-summary.js"
  /\ settingsFile.doc.hooks.Stop[1].hooks[1].command.args = "stop"

\* C20: a status that directly follows a successful install marks each of
\* PreToolUse, Notification and Stop as one of the tool's own scripts.
C20_StatusRecognisesOwnHooks ==
  [][ (cmd.name = "install" /\ cmd.outcome = "ok" /\ cmd'.name = "status") =>
        /\ cmd'.outcome = "ok"
        /\ \A k \in HookTypes : cmd'.report[k] = "own" ]_vars

InSeq(x, seq) == \E i \in 1..Len(seq) : seq[i] = x

\* the run reached the point where a sound file is resolved and played
ReachedPlayback ==
  \/ run.handler = "notification" /\ run.stdin.kind = "object"
       /\ run.flags.notify
  \/ run.handler = "stop" /\ run.stdin.kind = "object"
  \/ run.handler \in {"playSound", "playCompletionSound"}
       /\ run.stdin.data.soundFile # ""

NoSoundFile ==
  /\ machine.platform # "darwin"
  /\ ~machine.userExists /\ ~machine.bundledExists

SurfacedNotFound ==
  /\ InSeq("Sound file not found", run.err) \/ run.settled = "rejected"
  /\ \A i \in 1..Len(run.execs) : run.execs[i] \notin Players

----------------------------------------------------------------------------
(* Hook processes inside logEvent at the same time (utils.ts 16-35)        *)

\* lines 20-32 of logEvent in process p: readFileSync and JSON.parse of the
\* whole file, then logs.push of the new record, all in memory
LogRead(p) ==
  \E eventType \in EventTypes, data \in LogPayloads, now \in Times :
    /\ procs.at[p].pc = "idle"
    /\ procs' =
         [at |-> [procs.at EXCEPT ![p] =
                    [pc |-> "read", event |-> eventType,
                     mem |-> LogEvent(logs[eventType], data, now)]],
          overlapped |->
            \/ procs.overlapped
            \/ \E q \in Procs \ {p} :
                 procs.at[q].pc = "read" /\ procs.at[q].event = eventType]
    /\ logged' = [logged EXCEPT ![eventType] = Append(@, data)]
    /\ UNCHANGED << logs, run, chat, tts, anim >>
    /\ UNCHANGED << cliVars, storeVars, machine >>

\* line 34 of logEvent in process p: writeFileSync of the array in memory
LogWrite(p) ==
  /\ procs.at[p].pc = "read"
  /\ logs' = [logs EXCEPT ![procs.at[p].event] = procs.at[p].mem]
  /\ procs' = [procs EXCEPT !.at[p].pc = "done"]
  /\ UNCHANGED << logged, run, chat, tts, anim >>
  /\ UNCHANGED << cliVars, storeVars, machine >>

NextRace == \E p \in Procs : LogRead(p) \/ LogWrite(p)

\* one machine, no configuration: logEvent reads neither
InitRace == InitRun /\ machine = PlainMachine /\ configFile = MissingFile

SpecRace == InitRace /\ [][NextRace]_vars

\* no process is between its read and its write
NoneReading == \A p \in Procs : procs.at[p].pc # "read"

LogLen(file) == IF Parses(file) THEN Len(file.doc) ELSE 0

\* C22: when hook processes log one after the other no record is lost and
\* the log holds the payloads in the order they were logged; two processes
\* that log to the same event type at the same time can leave a log with
\* fewer records than events logged, and never one with more.
C22_SequentialLoggingLosesNothing ==
  /\ NoneReading =>
       \A e \in EventTypes :
         /\ LogLen(logs[e]) <= Len(logged[e])
         /\ Len(logged[e]) > 0 => LogLen(logs[e]) >= 1
  /\ (NoneReading /\ ~procs.overlapped) =>
       \A e \in EventTypes :
         /\ LogLen(logs[e]) = Len(logged[e])
         /\ \A i \in 1..Len(logged[e]) :
              ContainsPayload(logs[e].doc[i], logged[e][i])

\* two processes logged to the same event type and one record was lost
C22_Witness ==
  /\ \A p \in Procs : procs.at[p].pc = "done"
  /\ procs.overlapped
  /\ Len(logged["stop"]) = 2
  /\ LogLen(logs["stop"]) = 1

----------------------------------------------------------------------------
(* Voice-summary handler (tts-summary.ts).  A text is the sequence of the  *)
(* words that split(' ') finds in it; no text at all is the empty sequence *)

NoText == << >>

\* a tools_used value: a list of tool names, or a value that is not a list
ToolList(items) == [kind |-> "list", items |-> items]
ToolText(name)  == [kind |-> "string", items |-> << name >>]

LongText ==
  << "Permission", "needed", "to", "run", "the", "command", "rm", "-rf",
     "build" >>

TtsPayloads ==
  { EmptyDoc,
    [message |-> LongText, type |-> << "permission" >>],
    [type |-> << "idle" >>],
    [result |-> << "done" >>, tools_used |-> ToolList(<< "Read", "Edit", "Bash" >>)],
    [summary |-> << "all", "tests", "pass" >>, tools_used |-> ToolList(<< >>)],
    [result |-> LongText, tools_used |-> ToolList(<< "Bash" >>)],
    [result |-> LongText],
    [result |-> << "done" >>, tools_used |-> ToolText("Bash")] }

\* process.argv[2]
HookArgs == {"notification", "stop", "working"}

\* a text value that is present and not the empty string
HasText(data, k) == Has(data, k) /\ data[k] # NoText

\* truncateMessage(message, maxWords)
TruncateMessage(words, maxWords) ==
  IF Len(words) <= maxWords THEN words ELSE SubSeq(words, 1, maxWords)

\* items.slice(0, 2).join(", ") for tool names of one word each
JoinFirstTwo(items) ==
  IF Len(items) = 0 THEN NoText
  ELSE IF Len(items) = 1 THEN << items[1] >>
  ELSE << items[1] \o ",", items[2] >>

\* generateSummaryMessage(hookType, data); a TypeError inside its try block
\* (data is null, or tools_used has no join method) makes it return null
GenerateSummaryMessage(hookType, input) ==
  IF hookType \notin {"notification", "stop"} THEN NoText
  ELSE IF input.kind = "null" THEN NoText
  ELSE IF hookType = "notification"
  THEN LET notificationMsg ==
             IF HasText(input.data, "message") THEN input.data.message
             ELSE IF HasText(input.data, "type") THEN input.data.type
             ELSE << "attention", "needed" >>
       IN TruncateMessage(<< "Attention:" >> \o notificationMsg, 8)
  ELSE LET result ==
             IF HasText(input.data, "result") THEN input.data.result
             ELSE IF HasText(input.data, "summary") THEN input.data.summary
             ELSE << "task", "completed" >>
       IN IF ~Has(input.data, "tools_used")
          THEN TruncateMessage(<< "Completed:" >> \o result, 8)
          ELSE IF input.data.tools_used.kind # "list" THEN NoText
          ELSE LET tools == JoinFirstTwo(input.data.tools_used.items)
               IN IF tools # NoText
                  THEN TruncateMessage(<< "Completed:" >> \o tools, 8)
                  ELSE TruncateMessage(<< "Completed:" >> \o result, 8)

\* ConfigManager.isElevenLabsConfigured()
IsElevenLabsConfigured(file) ==
  LET config == LoadConfig(file) IN
  /\ config # Null
  /\ config.mode = "tts"
  /\ ApiKeyOf(config) # Undefined

\* how `claude mcp call elevenlabs generate_speech` ends: an error exit, the
\* 10 s timeout, output that is not JSON, JSON without audio_base64, JSON
\* with it
McpOutcomes == {"error", "timeout", "unparseable", "noaudio", "audio"}

\* what generateTTS does with each outcome: whether playBase64Audio handed
\* the clip to a player, and how often fallbackTTS ran.  playBase64Audio
\* calls require('fs'): where require is not defined (an ES module build)
\* the ReferenceError lands in the catch around JSON.parse
GenerateTTS(mcp, requireDefined) ==
  IF mcp \in {"error", "timeout"}
  THEN [played |-> 0, fallbacks |-> 1, err |-> << "MCP TTS generation failed" >>]
  ELSE IF mcp = "unparseable"
  THEN [played |-> 0, fallbacks |-> 1, err |-> << "Failed to parse MCP response" >>]
  ELSE IF mcp = "noaudio"
  THEN [played |-> 0, fallbacks |-> 0, err |-> << >>]
  ELSE IF requireDefined
  THEN [played |-> 1, fallbacks |-> 0, err |-> << >>]
  ELSE [played |-> 0, fallbacks |-> 1, err |-> << "Failed to parse MCP response" >>]

\* the voice-summary handler (stdin end callback)
RunTtsSummary ==
  \E input \in Stdin(TtsPayloads), hookType \in HookArgs, now \in Times,
     mcp \in McpOutcomes, requireDefined \in BOOLEAN :
    LET configured == IsElevenLabsConfigured(configFile)
        message == GenerateSummaryMessage(hookType, input)
        base == [hookType |-> hookType, stdin |-> input,
                 configured |-> configured, mcp |-> "none",
                 requireDefined |-> requireDefined, text |-> NoText,
                 requested |-> FALSE, played |-> 0, fallbacks |-> 0,
                 said |-> FALSE, printed |-> FALSE, exit |-> 0, err |-> << >>]
        speech == GenerateTTS(mcp, requireDefined)
    IN
    /\ IF ~ParsesInput(input)
       THEN tts' = [tts EXCEPT !.run =
                      [base EXCEPT !.exit = 2,
                         !.err = << "Error processing TTS summary" >>]]
       ELSE /\ LogLen(tts.log) < MaxRuns
            /\ tts' =
                 [log |-> LogEvent(tts.log, input.data, now),
                  run |->
                    IF ~configured
                    THEN [base EXCEPT !.exit = 1,
                            !.err = << "TTS mode not configured properly" >>]
                    ELSE IF message = NoText
                    THEN base
                    ELSE [base EXCEPT
                            !.text = message, !.requested = TRUE,
                            !.mcp = mcp, !.played = speech.played,
                            !.fallbacks = speech.fallbacks,
                            !.said = (speech.fallbacks > 0
                                        /\ machine.platform = "darwin"),
                            !.printed = (speech.fallbacks > 0
                                           /\ machine.platform # "darwin"),
                            !.err = speech.err]]
    /\ UNCHANGED << cliVars, storeVars, hookVars, chat, procs, anim >>

InitTts ==
  /\ settingsFile = MissingFile
  /\ configFile \in {MissingFile} \cup { Stringify(c) : c \in InitialConfigs }
  /\ claudeFile = MissingFile
  /\ distPath = "/srv/hooks/dist"
  /\ cmd = NoCmd
  /\ settings0 = settingsFile
  /\ installAdded = {}
  /\ installs = 0
  /\ prompted = FALSE
  /\ InitStore
  /\ logs = [e \in EventTypes |-> MissingFile]
  /\ logged = [e \in EventTypes |-> << >>]
  /\ machine \in { m \in Machines : ~m.userExists /\ ~m.bundledExists }
  /\ run = NoRun
  /\ InitSide

SpecTts == InitTts /\ [][RunTtsSummary]_vars

\* C23: in the voice-summary handler the speech request ends in exactly one
\* of three outcomes: an audio clip arrives and playback is dispatched with
\* no fallback; the request errors, times out or returns unparseable output
\* and the local fallback runs exactly once (speech on macOS, the text on
\* standard output elsewhere); it succeeds without an audio clip and neither
\* runs.  In every outcome the handler ends without a failure status.
C23_SpeechRequestOutcomes ==
  tts.run.requested =>
    /\ tts.run.exit = 0
    /\ tts.run.mcp = "audio" =>
         tts.run.played = 1 /\ tts.run.fallbacks = 0
    /\ tts.run.mcp \in {"error", "timeout", "unparseable"} =>
         /\ tts.run.played = 0 /\ tts.run.fallbacks = 1
         /\ tts.run.said <=> machine.platform = "darwin"
         /\ tts.run.printed <=> machine.platform # "darwin"
    /\ tts.run.mcp = "noaudio" =>
         tts.run.played = 0 /\ tts.run.fallbacks = 0

\* s is the beginning of t
IsPrefix(s, t) == Len(s) <= Len(t) /\ s = SubSeq(t, 1, Len(s))

\* the words a voice summary has to start with
SummaryPrefix(hookType) ==
  IF hookType = "notification" THEN "Attention:" ELSE "Completed:"

\* C24: for hook type notification or stop and any payload the summary has
\* at most 8 words and starts with "Attention:" or "Completed:"; for stop
\* the body is the first two entries of tools_used when that list is not
\* empty, otherwise result, summary or "task completed"; for any other hook
\* type no text is produced and the handler exits 0 without requesting
\* speech.
C24_SummaryText ==
  (tts.run.configured /\ tts.run.stdin.kind = "object") =>
    LET data == tts.run.stdin.data
        text == tts.run.text
        body == SubSeq(text, 2, Len(text))
        listed == /\ Has(data, "tools_used")
                  /\ data.tools_used.kind = "list"
                  /\ Len(data.tools_used.items) > 0
    IN
    IF tts.run.hookType \in {"notification", "stop"}
    THEN /\ text # NoText
         /\ Len(text) <= 8
         /\ text[1] = SummaryPrefix(tts.run.hookType)
         /\ (tts.run.hookType = "stop" /\ listed) =>
              /\ Len(body) = IF Len(data.tools_used.items) = 1 THEN 1 ELSE 2
              /\ body[1] \in { data.tools_used.items[1],
                                data.tools_used.items[1] \o "," }
              /\ Len(body) = 2 => body[2] = data.tools_used.items[2]
         /\ (tts.run.hookType = "stop" /\ ~listed) =>
              /\ HasText(data, "result") => IsPrefix(body, data.result)
              /\ (~HasText(data, "result") /\ HasText(data, "summary")) =>
                   IsPrefix(body, data.summary)
              /\ (~HasText(data, "result") /\ ~HasText(data, "summary")) =>
                   body = << "task", "completed" >>
    ELSE /\ text = NoText
         /\ tts.run.exit = 0
         /\ ~tts.run.requested

----------------------------------------------------------------------------
(* The stop handler and the chat log                                       *)

\* a chat log written by an earlier session
OldChat == [kind |-> "json", doc |-> << "earlier" >>]

InitChat ==
  /\ settingsFile = MissingFile
  /\ configFile = MissingFile
  /\ claudeFile = MissingFile
  /\ distPath = "/srv/hooks/dist"
  /\ cmd = NoCmd
  /\ settings0 = settingsFile
  /\ installAdded = {}
  /\ installs = 0
  /\ prompted = FALSE
  /\ InitStore
  /\ logs = [e \in EventTypes |-> MissingFile]
  /\ logged = [e \in EventTypes |-> << >>]
  /\ machine \in Machines
  /\ run = NoRun
  /\ chat \in { NoChat, [NoChat EXCEPT !.log = OldChat] }
  /\ procs = NoProcs /\ tts = NoTts /\ anim = NoAnim

SpecChat == InitChat /\ [][RunStopChat]_vars

\* the values of the lines that are JSON, in file order
RECURSIVE KeptLines(_)
KeptLines(lines) ==
  IF lines = << >> THEN << >>
  ELSE (IF Head(lines).kind = "json" THEN << Head(lines).value >> ELSE << >>)
         \o KeptLines(Tail(lines))

\* x occurs in seq, and before y wherever y occurs too
Before(x, y, seq) ==
  \E i \in 1..Len(seq) :
    seq[i] = x /\ \A j \in 1..Len(seq) : seq[j] = y => i < j

\* C25: the on-stop handler writes the chat log only when it was invoked
\* with --chat, the payload names a transcript file and that file exists;
\* the chat log then holds exactly the transcript's non-blank lines that
\* parse as JSON, in file order, replacing any previous chat log; the write
\* happens after the sound or speech command has returned and before the
\* process exits.
C25_ChatLogFromTranscript ==
  [][ run'.handler = "stop" =>
        LET asked == /\ run'.flags.chat
                     /\ run'.stdin.kind = "object"
                     /\ Truthy(run'.stdin.data, "transcript_path")
                     /\ chat'.transcript.kind = "text"
        IN IF asked
           THEN /\ chat'.log = [kind |-> "json",
                                doc |-> KeptLines(chat'.transcript.lines)]
                /\ Before("write", "exit", chat'.trace)
                /\ InSeq("exec", chat'.trace) =>
                     Before("returned", "write", chat'.trace)
                /\ chat'.trace[Len(chat'.trace)] = "exit"
           ELSE /\ chat'.log = chat.log
                /\ ~InSeq("write", chat'.trace) ]_vars

C25_Witness ==
  /\ run.handler = "stop" /\ run.flags.chat /\ run.exit = 0
  /\ chat.transcript =
       TranscriptOf(<< JsonLine("user"), BlankLine, BadLine, JsonLine("assistant") >>)
  /\ chat.log = [kind |-> "json", doc |-> << "user", "assistant" >>]
  /\ chat.trace = << "exec", "returned", "write", "exit" >>

----------------------------------------------------------------------------
(* The three documents across commands                                     *)

\* the elevenlabs entry of the integration document, Null when there is none
ElevenLabsEntry(file) ==
  LET claudeConfig == LoadClaudeConfig(file) IN
  IF Has(claudeConfig, "mcpServers") /\ Has(claudeConfig.mcpServers, "elevenlabs")
  THEN claudeConfig.mcpServers.elevenlabs
  ELSE Null

\* the last command was install, configure or switch-mode and ran to the end
LastCommandSucceeded ==
  cmd.name \in {"install", "configure", "switch-mode"} /\ cmd.outcome = "ok"

\* C26: after a successful install, configure or switch-mode command,
\* whenever the saved configuration has mode tts it also has a non-empty API
\* key, so that isElevenLabsConfigured holds, and the integration document
\* holds an elevenlabs entry whose ELEVENLABS_API_KEY equals that key.
C26_TtsModeHasKeyAndEntry ==
  LastCommandSucceeded =>
    LET config == LoadConfig(configFile) IN
    /\ config # Null
    /\ config.mode = "tts" =>
         /\ ApiKeyOf(config) \in ApiKeys
         /\ IsElevenLabsConfigured(configFile)
         /\ ElevenLabsEntry(claudeFile) # Null
         /\ ElevenLabsEntry(claudeFile).env.ELEVENLABS_API_KEY = ApiKeyOf(config)

\* a switch back to tts that reused the key typed at an earlier install
C26_Witness ==
  /\ cmd.name = "switch-mode" /\ cmd.outcome = "ok" /\ ~prompted
  /\ LoadConfig(configFile) # Null
  /\ LoadConfig(configFile).mode = "tts"
  /\ ApiKeyOf(LoadConfig(configFile)) = [key |-> 2]
  /\ ElevenLabsEntry(claudeFile) = ElevenLabsServer([key |-> 2])

\* an integration document with no elevenlabs entry
InitFresh == Init /\ ElevenLabsEntry(claudeFile) = Null

SpecFresh == InitFresh /\ [][NextCli]_vars

\* C27: starting from an integration document with no elevenlabs entry, the
\* entry is present only while the saved configuration has mode tts, and it
\* is absent after every uninstall.
C27_EntryOnlyInTtsMode ==
  /\ ElevenLabsEntry(claudeFile) # Null =>
       /\ LoadConfig(configFile) # Null
       /\ LoadConfig(configFile).mode = "tts"
  /\ cmd.name = "uninstall" => ElevenLabsEntry(claudeFile) = Null

\* C28: a command is all-or-nothing across the three documents: when
\* install, configure or switch-mode exits with a failure status, the host
\* settings, the configuration file and the integration document hold what
\* they held before the command.
C28_FailedCommandChangesNothing ==
  [][ (cmd'.name \in {"install", "configure", "switch-mode"} /\ cmd'.exit # 0)
        => UNCHANGED << settingsFile, configFile, claudeFile >> ]_vars

\* the last command was a successful install that started from the host
\* settings the run began with
InstalledFromInitial ==
  /\ cmd.name = "install" /\ cmd.outcome = "ok"
  /\ Parses(settings0)
  /\ LoadConfig(configFile) # Null
  /\ settingsFile =
       SaveSettings(InstallSettings(settings0.doc, LoadConfig(configFile).mode))

\* C29: install followed by uninstall is a round trip on host settings: the
\* document after install-then-uninstall equals the document before install.
C29_InstallUninstallRoundTrip ==
  [][ (InstalledFromInitial /\ cmd'.name = "uninstall")
        => settingsFile' = settings0 ]_vars

----------------------------------------------------------------------------
(* The animated status manager (tts-summary.ts 164-275)                    *)

\* STATUS_CONFIGS: emoji and default message of each status
StatusConfigs ==
  [working   |-> [emoji |-> "bolt",  message |-> "Claude is working..."],
   attention |-> [emoji |-> "bell",  message |-> "Attention required"],
   completed |-> [emoji |-> "check", message |-> "Task completed"],
   error     |-> [emoji |-> "cross", message |-> "Error occurred"],
   idle      |-> [emoji |-> "sleep", message |-> "Claude is idle"]]

StatusTypes == DOMAIN StatusConfigs

\* customMessage: left out (or empty), or a text of the caller's
CustomMessages == {"", "Build done"}

WorkingAnimations == << "bolt", "dizzy", "sparkles", "fire", "boom" >>

LoadingDots == << "", ".", "..", "..." >>

\* customMessage || config.message
StatusMessage(status, custom) ==
  IF custom # "" THEN custom ELSE StatusConfigs[status].message

\* the title a non-working status writes
StaticTitle(status, custom) ==
  [emoji |-> StatusConfigs[status].emoji,
   text |-> "Claude - " \o StatusMessage(status, custom)]

\* the title written by an animation frame
FrameTitle(frame) ==
  [emoji |-> WorkingAnimations[(frame % Len(WorkingAnimations)) + 1],
   text |-> "Claude - Working"
              \o LoadingDots[((frame \div 2) % Len(LoadingDots)) + 1]]

\* the title clearTerminalStatus writes
DefaultTitle == [emoji |-> "", text |-> "Claude Code"]

\* a stopAnimation that forgets the handle without clearing the timer
StopAnimationWithoutClear(a) == [a EXCEPT !.interval = 0]

\* stopAnimation: clearInterval and animationInterval = null
StopAnimation(a) ==
  IF a.interval # 0
  THEN [a EXCEPT !.live = @ \ {a.interval}, !.interval = 0]
  ELSE a

\* startWorkingAnimation: currentFrame = 0 and a new interval timer
StartWorkingAnimation(a) ==
  [a EXCEPT !.frame = 0, !.created = a.created + 1,
            !.interval = a.created + 1,
            !.live = a.live \cup {a.created + 1}]

AnimFrame == UNCHANGED << cliVars, storeVars, hookVars, chat, procs, tts >>

\* setTerminalStatus(status, customMessage)
SetTerminalStatus ==
  \E status \in StatusTypes, custom \in CustomMessages :
    LET stopped == StopAnimation(anim) IN
    /\ status = "working" => anim.created < MaxTimers
    /\ anim' = IF status = "working"
               THEN [StartWorkingAnimation(stopped)
                       EXCEPT !.last = status, !.written = NoTitle]
               ELSE [stopped EXCEPT !.title = StaticTitle(status, custom),
                                    !.last = status,
                                    !.written = StaticTitle(status, custom)]
    /\ AnimFrame

\* clearTerminalStatus()
ClearTerminalStatus ==
  /\ anim' = [StopAnimation(anim) EXCEPT !.title = DefaultTitle,
                                         !.last = "clear",
                                         !.written = DefaultTitle]
  /\ AnimFrame

\* the callback of a live interval timer, run by the event loop
AnimationFrame ==
  \E t \in anim.live :
    /\ anim.frame < MaxFrames
    /\ anim' = [anim EXCEPT !.title = FrameTitle(anim.frame),
                            !.frame = anim.frame + 1]
    /\ AnimFrame

NextAnim == SetTerminalStatus \/ ClearTerminalStatus \/ AnimationFrame

InitAnim == InitRace

SpecAnim == InitAnim /\ [][NextAnim]_vars

\* C30: after any sequence of setTerminalStatus and clearTerminalStatus
\* calls at most one animation timer is live; a timer is live exactly when
\* the most recent call was setTerminalStatus('working'); every non-working
\* status and every clear leaves no timer live, and the title is still the
\* one that call wrote.
C30_OneTimerOnlyWhileWorking ==
  /\ Cardinality(anim.live) <= 1
  /\ anim.live # {} <=> anim.last = "working"
  /\ anim.live # {} => anim.live = {anim.interval}
  /\ anim.last \notin {"working", "none"} =>
       /\ anim.live = {}
       /\ anim.interval = 0
       /\ anim.title = anim.written

\* a second animation ran for some frames and a completed status ended it
C30_Witness ==
  /\ anim.last = "completed"
  /\ anim.created = 2
  /\ anim.frame >= 2
  /\ anim.live = {}
  /\ anim.title = StaticTitle("completed", "Build done")

====
